---- MODULE Spec2Model ----
(***************************************************************************)
(* State-machine model of the ARGO ingestion subsystem                     *)
(* (backend/src/data/ingestion and backend/src/db).                        *)
(*                                                                         *)
(* The specifications of the module share one list of variables; each      *)
(* leaves the variables of the others at their idle values:                *)
(*   Spec        - ArgoIngestionService: ingest_file, ingest_directory     *)
(*                 (sequential and parallel), resume_ingestion, over the   *)
(*                 session / savepoint semantics of db.init_db             *)
(*   SpecRetry   - TransactionManager.execute_with_retry                   *)
(*   SpecMap     - batch_map_profiles as a pure function of its inputs     *)
(*   SpecLevel   - _create_measurement_models on one pressure level        *)
(*   SpecParse   - ArgoNetCDFParser.parse_file over the profiles of a file *)
(*   SpecBulk    - DatabaseOperations.bulk_insert_models                   *)
(*   SpecConfig  - the configuration of a command and of its service       *)
(*   SpecCleanup - DatabaseOperations.cleanup_old_logs                     *)
(*   SpecPool    - _process_files_parallel: worker pool, sessions, mappers *)
(***************************************************************************)
EXTENDS Integers, Sequences, FiniteSets, TLC

VARIABLES
  \* the discovered files, the configuration and the committed database
  content, max_workers, db,
  \* one ingest_file call per file: position, arguments, result, session
  pc, dry, result, session, savepoint, models, events, faulted,
  \* the orchestrator (ArgoIngestionService) and its run
  mainPc, runKind, results, stats, summary,
  \* bookkeeping of the exploration
  statsAtStart, history, faults, runs,
  \* TransactionManager.execute_with_retry
  rParam, rConfig, rPlan, rAttempt, rTrace, rStatus,
  \* batch_map_profiles as a function
  mapProfiles, mapFloats, mapResult, mapDone,
  \* _create_measurement_models on one pressure level
  lvLevel, lvOut, lvDone,
  \* ArgoNetCDFParser.parse_file over the profiles of one file
  pConfig, pDataset, pIdx, pDecoded, pYielded, pSkipped, pErrors, pStatus,
  pResult,
  \* DatabaseOperations.bulk_insert_models on one session
  bModels, bBefore, bTables, bStage, bTrace,
  \* the configuration a command or an API job builds and the service's
  cfEnv, cfRequest, cfLocal, cfService, cfStatus,
  \* DatabaseOperations.cleanup_old_logs on the audit log
  clToday, clDays, clLog, clKept, clResult, clStatus,
  \* _process_files_parallel: the pool, its tasks and the objects they use
  plMaxWorkers, plKind, plState, plSession, plMapper, plObjects, plCalls,
  plResults, plWriters

mainVars == <<content, max_workers, db, pc, dry, result, session, savepoint,
              models, events, faulted, mainPc, runKind, results, stats,
              summary, statsAtStart, history, faults, runs>>

retryVars == <<rParam, rConfig, rPlan, rAttempt, rTrace, rStatus>>

mapVars == <<mapProfiles, mapFloats, mapResult, mapDone>>

levelVars == <<lvLevel, lvOut, lvDone>>

parseVars == <<pConfig, pDataset, pIdx, pDecoded, pYielded, pSkipped, pErrors,
               pStatus, pResult>>

bulkVars == <<bModels, bBefore, bTables, bStage, bTrace>>

cfgVars == <<cfEnv, cfRequest, cfLocal, cfService, cfStatus>>

cleanVars == <<clToday, clDays, clLog, clKept, clResult, clStatus>>

poolVars == <<plMaxWorkers, plKind, plState, plSession, plMapper, plObjects,
              plCalls, plResults, plWriters>>

\* The variables of the specifications added after the parser's.
extraVars == <<bulkVars, cfgVars, cleanVars, poolVars>>

coreVars == <<mainVars, retryVars, mapVars, levelVars, parseVars>>

\* For the actions of one of the added specifications: the others' variables.
bulkOthers == <<cfgVars, cleanVars, poolVars>>

cfgOthers == <<bulkVars, cleanVars, poolVars>>

cleanOthers == <<bulkVars, cfgVars, poolVars>>

poolOthers == <<bulkVars, cfgVars, cleanVars>>

vars == <<mainVars, retryVars, mapVars, levelVars, parseVars, extraVars, extraVars>>

(***************************************************************************)
(* Values                                                                  *)
(***************************************************************************)

\* Python None / SQL NULL for a date or a number column.
Null == 0

\* The float identifiers, cycle numbers and profile timestamps of the inputs.
FloatIds == {"f1", "f2"}

MaxCycle == 2

MaxDate == 3

Cycles == 1..MaxCycle

Dates == 1..MaxDate

\* numpy NaN in a per-level array (no reading equals it).
NaN == -999

\* numpy inf in a per-level array: not a finite number, and not NaN.
Inf == 999999

\* The per-level arrays of parsers.ArgoProfile next to pressure.
ScienceFields == {"temperature", "temperature_adjusted", "salinity",
                  "salinity_adjusted", "oxygen", "chlorophyll"}

LevelFields == {"pressure"} \cup ScienceFields

\* One vertical sample: for each array its entry at the level, a number,
\* NaN or inf, or Null when the profile has no such array.  (No reading
\* of the model is 0, which stands for Null.)
FiniteLevel ==
  [k \in LevelFields |->
     IF k = "pressure" THEN 10 ELSE IF k = "temperature" THEN 15 ELSE Null]

BareLevel ==
  [k \in LevelFields |->
     IF k = "pressure" THEN 10 ELSE IF k = "temperature" THEN NaN ELSE Null]

\* parsers.ArgoProfile: an accepted profile handed to the mapper.
\* profile_id is f"{float_id}_{cycle_number}", modelled as the pair.
ArgoProfile(fid, cyc, dt, lv) ==
  [float_id |-> fid, cycle_number |-> cyc, profile_id |-> <<fid, cyc>>,
   date_time |-> dt, levels |-> lv]

(***************************************************************************)
(* Tables: sets of rows, looked up by key                                  *)
(***************************************************************************)

HasFloat(floats, fid) == \E r \in floats : r.float_id = fid

FloatRow(floats, fid) == CHOOSE r \in floats : r.float_id = fid

HasProfile(profiles, pid) == \E r \in profiles : r.profile_id = pid

ProfileRow(profiles, pid) == CHOOSE r \in profiles : r.profile_id = pid

(***************************************************************************)
(* Data mapper (mappers.py)                                                *)
(***************************************************************************)

\* The ArgoFloat object built for a float the session does not know.
\* persistent = FALSE: a transient object, never added to the session.
NewFloatModel(profile) ==
  [float_id |-> profile.float_id,
   status |-> "active",
   deployment_date |-> profile.date_time,
   last_contact_date |-> profile.date_time,
   total_profiles |-> 1,
   first_profile_date |-> profile.date_time,
   last_profile_date |-> profile.date_time,
   persistent |-> FALSE]

\* The ArgoFloat object loaded by session.query(...).first() and updated in
\* place; persistent = TRUE: it is attached to the session and its changed
\* attributes are written by the next flush.
UpdatedFloatModel(row, profile) ==
  [float_id |-> row.float_id,
   status |-> row.status,
   deployment_date |-> row.deployment_date,
   last_contact_date |->
     IF row.last_contact_date = Null \/ profile.date_time > row.last_contact_date
       THEN profile.date_time ELSE row.last_contact_date,
   total_profiles |-> row.total_profiles + 1,
   first_profile_date |->
     IF row.first_profile_date = Null \/ profile.date_time < row.first_profile_date
       THEN profile.date_time ELSE row.first_profile_date,
   last_profile_date |->
     IF row.last_profile_date = Null \/ profile.date_time > row.last_profile_date
       THEN profile.date_time ELSE row.last_profile_date,
   persistent |-> TRUE]

\* ArgoDataMapper._get_or_create_float, as the new value of _float_cache
\* (the float returned is the cache's entry for profile.float_id).
\* A cache hit returns the cached object as it is.
GetOrCreateFloat(profile, cache, floats) ==
  IF \E m \in cache : m.float_id = profile.float_id
    THEN cache
    ELSE IF HasFloat(floats, profile.float_id)
      THEN cache \cup {UpdatedFloatModel(FloatRow(floats, profile.float_id), profile)}
      ELSE cache \cup {NewFloatModel(profile)}

\* ArgoDataMapper._create_profile_model: data_points counts the non-NaN
\* pressure entries.
CreateProfileModel(profile) ==
  [profile_id |-> profile.profile_id,
   float_id |-> profile.float_id,
   cycle_number |-> profile.cycle_number,
   measurement_date |-> profile.date_time,
   data_points |->
     Cardinality({i \in DOMAIN profile.levels :
                    /\ profile.levels[i].pressure # Null
                    /\ profile.levels[i].pressure # NaN})]

\* _add_temperature_data, _add_salinity_data, _add_optional_measurements:
\* a field of the measurement is set when the array exists and its entry
\* is not NaN (np.isnan), and stays None otherwise.
FieldValue(v) == IF v = Null \/ v = NaN THEN Null ELSE v

\* The ArgoMeasurement built for one level (DOXY goes to oxygen, CHLA to
\* chlorophyll_a).
MeasurementModel(pid, level) ==
  [profile_id |-> pid,
   pressure |-> level.pressure,
   temperature |-> FieldValue(level.temperature),
   temperature_adjusted |-> FieldValue(level.temperature_adjusted),
   salinity |-> FieldValue(level.salinity),
   salinity_adjusted |-> FieldValue(level.salinity_adjusted),
   oxygen |-> FieldValue(level.oxygen),
   chlorophyll_a |-> FieldValue(level.chlorophyll)]

\* A measurement that passes for valid whatever it holds.
HasValidDataAlways(m) == m.pressure # Null

\* ArgoDataMapper._has_valid_data on the measurement built for one level.
HasValidData(m) ==
  /\ m.pressure # Null
  /\ \/ m.temperature # Null \/ m.temperature_adjusted # Null
     \/ m.salinity # Null \/ m.salinity_adjusted # Null
     \/ m.oxygen # Null
     \/ m.chlorophyll_a # Null

\* ArgoDataMapper._create_measurement_models: no measurement without a
\* pressure array; a level whose pressure is NaN is skipped; the measurement
\* of a level is kept when _has_valid_data accepts it; in level order.
RECURSIVE CreateMeasurementModels(_, _)
CreateMeasurementModels(profile, i) ==
  IF i > Len(profile.levels) THEN <<>>
  ELSE LET level == profile.levels[i]
           rest == CreateMeasurementModels(profile, i + 1)
           m == MeasurementModel(profile.profile_id, level)
       IN  IF level.pressure # Null /\ level.pressure # NaN /\ HasValidData(m)
             THEN <<m>> \o rest
             ELSE rest

\* The loop of batch_map_profiles from profile i on, with the mapper's cache
\* and the lists built so far.
RECURSIVE MapFrom(_, _, _, _)
MapFrom(profiles, i, floats, acc) ==
  IF i > Len(profiles) THEN acc
  ELSE LET p == profiles[i]
       IN  MapFrom(profiles, i + 1, floats,
             [cache |-> GetOrCreateFloat(p, acc.cache, floats),
              profiles |-> Append(acc.profiles, CreateProfileModel(p)),
              measurements |-> acc.measurements \o CreateMeasurementModels(p, 1)])

\* mappers.batch_map_profiles: a fresh mapper (empty cache) per call; the
\* floats are de-duplicated by float_id, which is what the cache holds.
batch_map_profiles(profiles, floats) ==
  LET r == MapFrom(profiles, 1, floats,
                   [cache |-> {}, profiles |-> <<>>, measurements |-> <<>>])
  IN  [floats |-> r.cache, profiles |-> r.profiles, measurements |-> r.measurements]

(***************************************************************************)
(* The database: committed tables                                          *)
(***************************************************************************)

\* A database nothing was written to.
EmptyStore == [floats |-> {}, profiles |-> {}, measurements |-> {}, log |-> <<>>]

\* A database that already holds float f1 with one profile, and an audit
\* row saying file A was ingested.
PopulatedStore ==
  [floats |-> {[float_id |-> "f1", status |-> "active", deployment_date |-> 2,
                last_contact_date |-> 2, total_profiles |-> 1,
                first_profile_date |-> 2, last_profile_date |-> 2]},
   profiles |-> {[profile_id |-> <<"f1", 1>>, float_id |-> "f1",
                  cycle_number |-> 1, measurement_date |-> 2, data_points |-> 1]},
   measurements |-> {},
   log |-> <<[file_path |-> "A", status |-> "success"]>>]

InitialStores == {EmptyStore, PopulatedStore}

(***************************************************************************)
(* TransactionManager.execute_with_retry (database_ops.py)                 *)
(***************************************************************************)

\* The largest retry count explored.
MaxRetriesBound == 2

\* IngestionConfig.retry_delay, in seconds.
RetryDelay == 1

\* What one call of operation_func does: return, raise a persistence-layer
\* exception (SQLAlchemyError / IntegrityError), or raise anything else.
CallOutcomes == {"ok", "dberr", "error"}

RECURSIVE Pow2(_)
Pow2(n) == IF n = 0 THEN 1 ELSE 2 * Pow2(n - 1)

\* max_retries = max_retries or self.config.max_retries
\* (Python's "or": None and 0 both fall through to the configured value).
EffectiveMaxRetries(param, config) ==
  IF param.given /\ param.value # 0 THEN param.value ELSE config.max_retries

\* if attempt == max_retries: ... raise
LastAttemptNever(attempt, maxRetries) == FALSE

LastAttempt(attempt, maxRetries) == attempt = maxRetries

\* the delay slept before the next attempt
BackoffDelay(config, attempt) ==
  IF config.exponential_backoff THEN config.retry_delay * Pow2(attempt)
  ELSE config.retry_delay

RetryMax == EffectiveMaxRetries(rParam, rConfig)

RetryIdle ==
  /\ rParam = [given |-> FALSE, value |-> 0]
  /\ rConfig = [max_retries |-> 0, retry_delay |-> RetryDelay,
                exponential_backoff |-> FALSE]
  /\ rPlan = <<>>
  /\ rAttempt = 0
  /\ rTrace = <<>>
  /\ rStatus = "idle"

\* A call execute_with_retry(op, max_retries=rParam) under configuration
\* rConfig, where the k-th call of op behaves as rPlan[k].
RetryInit ==
  /\ rParam \in {[given |-> FALSE, value |-> 0]}
                \cup [given : {TRUE}, value : 0..MaxRetriesBound]
  /\ rConfig \in [max_retries : -1..MaxRetriesBound, retry_delay : {RetryDelay},
                  exponential_backoff : BOOLEAN]
  /\ rPlan \in [1..(MaxRetriesBound + 1) -> CallOutcomes]
  /\ rAttempt = 0
  /\ rTrace = <<>>
  /\ rStatus = "running"

CallEvent(k) == [kind |-> "call", n |-> k, delay |-> 0]

SleepEvent(d) == [kind |-> "sleep", n |-> 0, delay |-> d]

\* return operation_func(*args, **kwargs)
RetryCallReturns ==
  /\ rStatus = "running" /\ rAttempt <= RetryMax
  /\ rPlan[rAttempt + 1] = "ok"
  /\ rTrace' = Append(rTrace, CallEvent(rAttempt + 1))
  /\ rStatus' = "returned"
  /\ UNCHANGED <<mainVars, mapVars, levelVars, parseVars, extraVars, rParam, rConfig, rPlan, rAttempt>>

\* except (SQLAlchemyError, IntegrityError): not the last attempt: sleep
RetryCallFailsAndSleeps ==
  /\ rStatus = "running" /\ rAttempt <= RetryMax
  /\ rPlan[rAttempt + 1] = "dberr"
  /\ ~LastAttempt(rAttempt, RetryMax)
  /\ rTrace' = rTrace \o <<CallEvent(rAttempt + 1),
                           SleepEvent(BackoffDelay(rConfig, rAttempt))>>
  /\ rAttempt' = rAttempt + 1
  /\ UNCHANGED <<mainVars, mapVars, levelVars, parseVars, extraVars, rParam, rConfig, rPlan, rStatus>>

\* except (SQLAlchemyError, IntegrityError): attempt == max_retries: raise
RetryCallFailsLast ==
  /\ rStatus = "running" /\ rAttempt <= RetryMax
  /\ rPlan[rAttempt + 1] = "dberr"
  /\ LastAttempt(rAttempt, RetryMax)
  /\ rTrace' = Append(rTrace, CallEvent(rAttempt + 1))
  /\ rStatus' = "raised"
  /\ UNCHANGED <<mainVars, mapVars, levelVars, parseVars, extraVars, rParam, rConfig, rPlan, rAttempt>>

\* any other exception is not caught
RetryCallPropagates ==
  /\ rStatus = "running" /\ rAttempt <= RetryMax
  /\ rPlan[rAttempt + 1] = "error"
  /\ rTrace' = Append(rTrace, CallEvent(rAttempt + 1))
  /\ rStatus' = "propagated"
  /\ UNCHANGED <<mainVars, mapVars, levelVars, parseVars, extraVars, rParam, rConfig, rPlan, rAttempt>>

\* range(max_retries + 1) is exhausted: the function ends without a return
RetryLoopEnds ==
  /\ rStatus = "running" /\ rAttempt > RetryMax
  /\ rStatus' = "fell_through"
  /\ UNCHANGED <<mainVars, mapVars, levelVars, parseVars, extraVars, rParam, rConfig, rPlan, rAttempt, rTrace>>

(***************************************************************************)
(* batch_map_profiles applied to an input                                  *)
(***************************************************************************)

\* The longest list of accepted profiles per file.
MaxProfiles == 2

LevelSeqs == {<<BareLevel>>, <<FiniteLevel, BareLevel>>}

AllProfiles ==
  {ArgoProfile(fid, cyc, dt, lv) :
     fid \in FloatIds, cyc \in Cycles, dt \in Dates, lv \in LevelSeqs}

RECURSIVE SeqsUpTo(_, _)
SeqsUpTo(S, n) ==
  IF n = 0 THEN {<<>>}
  ELSE LET shorter == SeqsUpTo(S, n - 1)
       IN  shorter \cup {Append(q, x) : q \in {r \in shorter : Len(r) = n - 1}, x \in S}

NoModels == [floats |-> {}, profiles |-> <<>>, measurements |-> <<>>]

MapIdle ==
  /\ mapProfiles = <<>>
  /\ mapFloats = {}
  /\ mapResult = NoModels
  /\ mapDone = FALSE

MapInit ==
  /\ mapProfiles \in SeqsUpTo(AllProfiles, MaxProfiles) \ {<<>>}
  /\ mapFloats \in {st.floats : st \in InitialStores}
  /\ mapResult = NoModels
  /\ mapDone = FALSE

MapBatch ==
  /\ ~mapDone
  /\ mapResult' = batch_map_profiles(mapProfiles, mapFloats)
  /\ mapDone' = TRUE
  /\ UNCHANGED <<mainVars, retryVars, levelVars, parseVars, extraVars, mapProfiles, mapFloats>>

(***************************************************************************)
(* _create_measurement_models on a profile of one level                    *)
(***************************************************************************)

\* What an entry of a per-level array can be.
LevelValues == {Null, NaN, Inf, 10, -5}

LevelIdle ==
  /\ lvLevel = BareLevel
  /\ lvOut = <<>>
  /\ lvDone = TRUE

LevelInit ==
  /\ lvLevel \in [LevelFields -> LevelValues]
  /\ lvOut = <<>>
  /\ lvDone = FALSE

MapLevel ==
  /\ ~lvDone
  /\ lvOut' = CreateMeasurementModels(ArgoProfile("f1", 1, 1, <<lvLevel>>), 1)
  /\ lvDone' = TRUE
  /\ UNCHANGED <<mainVars, retryVars, mapVars, parseVars, extraVars, lvLevel>>

(***************************************************************************)
(* Parser (parsers.py): parse_file over the profiles of one dataset        *)
(***************************************************************************)

\* The number of profiles (N_PROF) of a dataset.
MaxScan == 3

\* The largest max_errors_per_file of the configurations explored.
MaxErrorsBound == 2

\* config.DataMode: the values the enumeration accepts.
DataModes == {"R", "D", "A"}

\* ValidationConfig defaults.  Dates are years; max_date is set by
\* IngestionConfig.__post_init__ to the day of the run.
ValidationConfig ==
  [latitude_min |-> -90, latitude_max |-> 90,
   longitude_min |-> -180, longitude_max |-> 180,
   min_date |-> 1990, max_date |-> 2026]

NoGeographicBounds ==
  [given |-> FALSE, lat_min |-> -90, lat_max |-> 90,
   lon_min |-> -180, lon_max |-> 180]

NoDateRange == [given |-> FALSE, start |-> 1990, end |-> 2026]

\* create_sample_config()
SampleConfig ==
  [max_errors_per_file |-> 5,
   geographic_bounds |-> [given |-> TRUE, lat_min |-> 30, lat_max |-> 50,
                          lon_min |-> -80, lon_max |-> -40],
   date_range |-> [given |-> TRUE, start |-> 2020, end |-> 2023],
   data_modes |-> DataModes]

\* IngestionConfig() with max_errors_per_file and data_modes set.
PlainConfig(maxErrors, modes) ==
  [max_errors_per_file |-> maxErrors,
   geographic_bounds |-> NoGeographicBounds,
   date_range |-> NoDateRange,
   data_modes |-> modes]

ParserConfigs ==
  {SampleConfig} \cup
  {PlainConfig(m, modes) : m \in 1..MaxErrorsBound, modes \in {DataModes, {"R"}}}

\* What the dataset holds at one profile index.  decodes = FALSE: JULD is
\* NaN or the decoding raises, and _parse_single_profile returns None.
RawProfile(dec, lat, lon, year, mode) ==
  [decodes |-> dec, latitude |-> lat, longitude |-> lon, date_time |-> year,
   data_mode |-> mode]

RawProfiles ==
  { RawProfile(TRUE, 45, -60, 2021, "R"),
    RawProfile(TRUE, 45, -125, 2023, "R"),
    RawProfile(TRUE, 95, -125, 2023, "R"),
    RawProfile(TRUE, 45, -60, 1980, "R"),
    RawProfile(TRUE, 45, -60, 2021, "D"),
    RawProfile(TRUE, 45, -60, 2021, "X"),
    RawProfile(FALSE, 45, -60, 2021, "R") }

Between(lo, x, hi) == lo <= x /\ x <= hi

ProfileError(i, what) == [index |-> i, about |-> what]

\* The errors list _validate_profile builds before the filters.
ValidationErrors(p, i) ==
  LET v == ValidationConfig
  IN  (IF Between(v.latitude_min, p.latitude, v.latitude_max)
         THEN <<>> ELSE <<ProfileError(i, "latitude")>>)
      \o (IF Between(v.longitude_min, p.longitude, v.longitude_max)
            THEN <<>> ELSE <<ProfileError(i, "longitude")>>)
      \o (IF Between(v.min_date, p.date_time, v.max_date)
            THEN <<>> ELSE <<ProfileError(i, "date")>>)

\* ArgoNetCDFParser._validate_profile on the profile decoded at index i:
\* what it returns (or that it raises) and what it adds to result.errors.
\* The filters return False before the collected errors are added;
\* DataMode(profile.data_mode) raises ValueError for an unknown mode.
ValidateProfile(config, p, i) ==
  LET geo == config.geographic_bounds
      range == config.date_range
      Quiet(o) == [outcome |-> o, errors |-> <<>>]
  IN  IF geo.given /\ ~Between(geo.lat_min, p.latitude, geo.lat_max)
        THEN Quiet("false")
      ELSE IF geo.given /\ ~Between(geo.lon_min, p.longitude, geo.lon_max)
        THEN Quiet("false")
      ELSE IF range.given /\ ~Between(range.start, p.date_time, range.end)
        THEN Quiet("false")
      ELSE IF p.data_mode \notin DataModes
        THEN Quiet("raise")
      ELSE IF p.data_mode \notin config.data_modes
        THEN Quiet("false")
      ELSE IF ValidationErrors(p, i) # <<>>
        THEN [outcome |-> "false", errors |-> ValidationErrors(p, i)]
      ELSE Quiet("true")

NoParseResult ==
  [success |-> FALSE, records_processed |-> 0, records_skipped |-> 0,
   errors |-> <<>>, profiles |-> <<>>]

ParseIdle ==
  /\ pConfig = SampleConfig
  /\ pDataset = <<>>
  /\ pIdx = 1
  /\ pDecoded = {}
  /\ pYielded = <<>>
  /\ pSkipped = 0
  /\ pErrors = <<>>
  /\ pStatus = "off"
  /\ pResult = NoParseResult

\* parse_file has opened the dataset and found the required variables.
ParseInit ==
  /\ pConfig \in ParserConfigs
  /\ pDataset \in SeqsUpTo(RawProfiles, MaxScan) \ {<<>>}
  /\ pIdx = 1
  /\ pDecoded = {}
  /\ pYielded = <<>>
  /\ pSkipped = 0
  /\ pErrors = <<>>
  /\ pStatus = "scanning"
  /\ pResult = NoParseResult

Scanning == pStatus = "scanning" /\ pIdx <= Len(pDataset)

\* _parse_profiles: the profile decodes and validates, and is yielded.
ParseProfileYielded ==
  /\ Scanning
  /\ pDataset[pIdx].decodes
  /\ ValidateProfile(pConfig, pDataset[pIdx], pIdx).outcome = "true"
  /\ pYielded' = Append(pYielded, [index |-> pIdx, profile |-> pDataset[pIdx]])
  /\ pDecoded' = pDecoded \cup {pIdx}
  /\ pIdx' = pIdx + 1
  /\ UNCHANGED <<mainVars, retryVars, mapVars, levelVars, extraVars, pConfig, pDataset,
                 pSkipped, pErrors, pStatus, pResult>>

\* _parse_profiles: _parse_single_profile returns None or _validate_profile
\* returns False: records_skipped += 1.
ParseProfileSkipped ==
  /\ Scanning
  /\ LET v == ValidateProfile(pConfig, pDataset[pIdx], pIdx)
     IN  /\ ~pDataset[pIdx].decodes \/ v.outcome = "false"
         /\ pErrors' = IF pDataset[pIdx].decodes THEN pErrors \o v.errors
                       ELSE pErrors
  /\ pSkipped' = pSkipped + 1
  /\ pDecoded' = pDecoded \cup {pIdx}
  /\ pIdx' = pIdx + 1
  /\ UNCHANGED <<mainVars, retryVars, mapVars, levelVars, extraVars, pConfig, pDataset,
                 pYielded, pStatus, pResult>>

\* _parse_profiles, except branch: the error is added, records_skipped += 1,
\* and the loop breaks when len(result.errors) >= max_errors_per_file.
ParseProfileRaised ==
  /\ Scanning
  /\ pDataset[pIdx].decodes
  /\ ValidateProfile(pConfig, pDataset[pIdx], pIdx).outcome = "raise"
  /\ pErrors' = Append(pErrors, ProfileError(pIdx, "exception"))
  /\ pSkipped' = pSkipped + 1
  /\ pDecoded' = pDecoded \cup {pIdx}
  /\ IF Len(pErrors) + 1 >= pConfig.max_errors_per_file
       THEN pStatus' = "stopped" /\ pIdx' = pIdx
       ELSE pStatus' = pStatus /\ pIdx' = pIdx + 1
  /\ UNCHANGED <<mainVars, retryVars, mapVars, levelVars, extraVars, pConfig, pDataset,
                 pYielded, pResult>>

\* parse_file after the generator is exhausted or broken off:
\* records_processed = len(profiles), success = True.
ParseFileReturns ==
  /\ \/ pStatus = "stopped"
     \/ pStatus = "scanning" /\ pIdx > Len(pDataset)
  /\ pResult' = [success |-> TRUE, records_processed |-> Len(pYielded),
                 records_skipped |-> pSkipped, errors |-> pErrors,
                 profiles |-> pYielded]
  /\ pStatus' = IF pStatus = "stopped" THEN "returned_early" ELSE "returned"
  /\ UNCHANGED <<mainVars, retryVars, mapVars, levelVars, extraVars, pConfig, pDataset,
                 pIdx, pDecoded, pYielded, pSkipped, pErrors>>

(***************************************************************************)
(* The discovered files                                                    *)
(***************************************************************************)

Files == {"A", "B"}

\* discover_argo_files: de-duplicated and sorted.
FileList == <<"A", "B">>

\* What a file is to the per-file pipeline:
\*   unreadable   - validate_netcdf_file raises (stat() fails)
\*   invalid      - validate_netcdf_file returns (False, reasons)
\*   missing_vars - parse_file finds a required variable missing
\*   ok           - parse_file succeeds with the accepted profiles listed
FileCatalog ==
  { [kind |-> "unreadable", profiles |-> <<>>],
    [kind |-> "invalid", profiles |-> <<>>],
    [kind |-> "missing_vars", profiles |-> <<>>],
    [kind |-> "ok", profiles |-> <<>>],
    [kind |-> "ok", profiles |-> <<ArgoProfile("f1", 1, 2, <<BareLevel>>)>>],
    [kind |-> "ok", profiles |-> <<ArgoProfile("f2", 1, 2, <<BareLevel>>),
                                   ArgoProfile("f2", 2, 1, <<BareLevel>>)>>],
    [kind |-> "ok", profiles |-> <<ArgoProfile("f2", 1, 1, <<FiniteLevel>>)>>] }

(***************************************************************************)
(* FileProcessingResult (config.py)                                        *)
(***************************************************************************)

FileProcessingResult(path, ok, processed, inserted, errs) ==
  [file_path |-> path, success |-> ok, records_processed |-> processed,
   records_inserted |-> inserted, errors |-> errs]

NoResult == FileProcessingResult("", FALSE, 0, 0, <<>>)

\* A parser that does not object to a missing required variable.
ParseFileLenient(path, c) ==
  FileProcessingResult(path, TRUE, Len(c.profiles), 0, <<>>)

\* ArgoNetCDFParser.parse_file on a file that passed validate_netcdf_file.
ParseFile(path, c) ==
  IF c.kind = "missing_vars"
    THEN FileProcessingResult(path, FALSE, 0, 0, <<"missing_vars">>)
    ELSE FileProcessingResult(path, TRUE, Len(c.profiles), 0, <<>>)

\* A dry run that reports nothing processed.
DryRunResultZero(path, c) == FileProcessingResult(path, TRUE, 0, 0, <<>>)

\* ingest_file, dry_run branch: result.records_processed = len(profiles)
DryRunResult(path, c) ==
  [ParseFile(path, c) EXCEPT !.records_processed = Len(c.profiles)]

(***************************************************************************)
(* Database statements (database_ops.py) on a session's view of the tables *)
(***************************************************************************)

\* db/models.py: argo_measurements has a plain index on (profile_id,
\* pressure) and no unique constraint on it.
MeasurementKeyUnique == FALSE

\* Session.begin_nested flushes the session: the attributes the mapper
\* changed on floats it loaded from the session are written by UPDATE.
FlushFloats(floats, floatModels) ==
  { IF \E m \in floatModels : m.persistent /\ m.float_id = r.float_id
      THEN LET m == CHOOSE x \in floatModels : x.float_id = r.float_id
           IN  [r EXCEPT !.last_contact_date = m.last_contact_date,
                         !.total_profiles = m.total_profiles,
                         !.first_profile_date = m.first_profile_date,
                         !.last_profile_date = m.last_profile_date]
      ELSE r : r \in floats }

\* A float statement that updates the rows it finds and inserts none.
UpsertFloatsUpdateOnly(floats, floatModels) ==
  { IF \E m \in floatModels : m.float_id = r.float_id
      THEN LET m == CHOOSE x \in floatModels : x.float_id = r.float_id
           IN  [r EXCEPT !.last_contact_date = m.last_contact_date,
                         !.total_profiles = m.total_profiles,
                         !.status = m.status,
                         !.last_profile_date = Null]
      ELSE r : r \in floats }

\* _upsert_floats: INSERT ... ON CONFLICT (float_id) DO UPDATE.  The values
\* carry neither first_profile_date nor last_profile_date, so both are NULL
\* in an inserted row and excluded.last_profile_date is NULL on conflict.
UpsertFloats(floats, floatModels) ==
  { IF \E m \in floatModels : m.float_id = r.float_id
      THEN LET m == CHOOSE x \in floatModels : x.float_id = r.float_id
           IN  [r EXCEPT !.last_contact_date = m.last_contact_date,
                         !.total_profiles = m.total_profiles,
                         !.status = m.status,
                         !.last_profile_date = Null]
      ELSE r : r \in floats }
  \cup
  { [float_id |-> m.float_id, status |-> m.status,
     deployment_date |-> m.deployment_date,
     last_contact_date |-> m.last_contact_date,
     total_profiles |-> m.total_profiles,
     first_profile_date |-> Null, last_profile_date |-> Null] :
    m \in {x \in floatModels : ~HasFloat(floats, x.float_id)} }

\* One INSERT ... ON CONFLICT DO UPDATE may not touch a row twice.
DuplicateKeys(rows) ==
  \E i, j \in DOMAIN rows : i # j /\ rows[i].profile_id = rows[j].profile_id

\* _upsert_profiles: INSERT ... ON CONFLICT (profile_id) DO UPDATE of
\* data_points (with data_mode, the pressure bounds and the quality flag).
UpsertProfiles(profiles, profileModels) ==
  LET new == {profileModels[i] : i \in DOMAIN profileModels}
  IN  { IF \E m \in new : m.profile_id = r.profile_id
          THEN [r EXCEPT !.data_points =
                  (CHOOSE x \in new : x.profile_id = r.profile_id).data_points]
          ELSE r : r \in profiles }
      \cup {m \in new : ~HasProfile(profiles, m.profile_id)}

\* _bulk_insert_measurements: INSERT ... ON CONFLICT (profile_id, pressure)
\* DO UPDATE, batch by batch.  The statement needs a unique index on its
\* conflict target; without one the database rejects it.
MeasurementStatementAccepted(measurementModels) ==
  /\ MeasurementKeyUnique
  /\ ~\E i, j \in DOMAIN measurementModels :
        /\ i # j
        /\ measurementModels[i].profile_id = measurementModels[j].profile_id
        /\ measurementModels[i].pressure = measurementModels[j].pressure

\* db/models.py: CheckConstraint('pressure >= 0') on argo_measurements.
ValidPressure(m) == m.pressure >= 0

\* log_ingestion_result: one DataIngestionLog row, status from
\* create_ingestion_log_entry.
LogEntry(res) ==
  [file_path |-> res.file_path,
   status |-> IF res.success THEN "success" ELSE "failed"]

\* get_ingestion_status: the newest row of the file, or none.
HasStatus(log, path) == \E i \in DOMAIN log : log[i].file_path = path

LatestStatus(log, path) ==
  log[CHOOSE i \in DOMAIN log :
        /\ log[i].file_path = path
        /\ \A j \in DOMAIN log : log[j].file_path = path => j <= i].status

(***************************************************************************)
(* Configuration (config.py) as a command or an API job builds it, and the *)
(* service's (scripts/ingest_argo.py, api/routes/ingestion.py, service.py) *)
(***************************************************************************)

\* An optional integer: an environment variable, a command-line option, a
\* field of a job request, a keyword argument.
NoValue == [given |-> FALSE, value |-> 0]

Some(v) == [given |-> TRUE, value |-> v]

\* The two processing parameters of an IngestionConfig, with the defaults
\* of the dataclass.
IngestionDefaults == [batch_size |-> 1000, max_workers |-> 4]

\* create_sample_config: IngestionConfig(batch_size=500, max_workers=2, ...)
SampleProcessing == [batch_size |-> 500, max_workers |-> 2]

NoConfig == [batch_size |-> 0, max_workers |-> 0]

\* os.cpu_count() or 1, on the machines explored.
CpuCounts == {1, 2}

\* IngestionConfig.__post_init__: raise ValueError("batch_size must be
\* positive").
PostInitRaises(c) == c.batch_size <= 0

\* IngestionConfig.__post_init__: a non-positive max_workers becomes the
\* CPU count.
PostInit(c, cpus) ==
  [c EXCEPT !.max_workers = IF @ <= 0 THEN cpus ELSE @]

\* load_config_from_env: IngestionConfig() with the defaults, then the
\* variables that are set are assigned to its fields.
load_config_from_env(env) ==
  [batch_size |-> IF env.batch_size.given THEN env.batch_size.value
                  ELSE IngestionDefaults.batch_size,
   max_workers |-> IF env.max_workers.given THEN env.max_workers.value
                   ELSE IngestionDefaults.max_workers]

\* main / run_ingestion_job: if args.max_workers: config.max_workers = ...;
\* if args.batch_size: config.batch_size = ...  (0 counts as not given).
ApplyOverrides(c, req) ==
  [batch_size |-> IF req.batch_size.given /\ req.batch_size.value # 0
                    THEN req.batch_size.value ELSE c.batch_size,
   max_workers |-> IF req.max_workers.given /\ req.max_workers.value # 0
                     THEN req.max_workers.value ELSE c.max_workers]

\* create_ingestion_service(): the configuration is loaded from the
\* environment, whatever the caller holds.
create_ingestion_service(env) == load_config_from_env(env)

EnvValues == [batch_size : {NoValue, Some(-1), Some(0), Some(2)},
              max_workers : {NoValue, Some(0), Some(3)}]

\* via: "command" for the CLI and the API job (the same steps), "constructor"
\* for a caller that builds IngestionConfig(batch_size=..., max_workers=...)
\* and the service from it.
Requests == [via : {"command", "constructor"},
             sample : BOOLEAN,
             batch_size : {NoValue, Some(-1), Some(0), Some(5)},
             max_workers : {NoValue, Some(0), Some(6)}]

CfgIdle ==
  /\ cfEnv = [batch_size |-> NoValue, max_workers |-> NoValue]
  /\ cfRequest = [via |-> "command", sample |-> FALSE, batch_size |-> NoValue,
                  max_workers |-> NoValue]
  /\ cfLocal = NoConfig
  /\ cfService = NoConfig
  /\ cfStatus = "off"

CfgInit ==
  /\ cfEnv \in EnvValues
  /\ cfRequest \in Requests
  /\ cfLocal = NoConfig
  /\ cfService = NoConfig
  /\ cfStatus = "start"

\* main / run_ingestion_job: config = create_sample_config() or
\* load_config_from_env()
CfgLoad ==
  /\ cfStatus = "start" /\ cfRequest.via = "command"
  /\ cfLocal' = IF cfRequest.sample THEN SampleProcessing
                ELSE load_config_from_env(cfEnv)
  /\ cfStatus' = "loaded"
  /\ UNCHANGED <<coreVars, cfgOthers, cfEnv, cfRequest, cfService>>

\* main / run_ingestion_job: the overrides are applied to the local config.
CfgOverride ==
  /\ cfStatus = "loaded"
  /\ cfLocal' = ApplyOverrides(cfLocal, cfRequest)
  /\ cfStatus' = "overridden"
  /\ UNCHANGED <<coreVars, cfgOthers, cfEnv, cfRequest, cfService>>

\* main / run_ingestion_job: service = create_ingestion_service()
CfgCreateService ==
  /\ cfStatus = "overridden"
  /\ cfService' = create_ingestion_service(cfEnv)
  /\ cfStatus' = "created"
  /\ UNCHANGED <<coreVars, cfgOthers, cfEnv, cfRequest, cfLocal>>

\* The configuration a constructor call asks for.
Requested(req) ==
  [batch_size |-> IF req.batch_size.given THEN req.batch_size.value
                  ELSE IngestionDefaults.batch_size,
   max_workers |-> IF req.max_workers.given THEN req.max_workers.value
                   ELSE IngestionDefaults.max_workers]

\* ArgoIngestionService(IngestionConfig(batch_size=..., max_workers=...))
CfgConstruct ==
  /\ cfStatus = "start" /\ cfRequest.via = "constructor"
  /\ ~PostInitRaises(Requested(cfRequest))
  /\ \E cpus \in CpuCounts :
       /\ cfLocal' = PostInit(Requested(cfRequest), cpus)
       /\ cfService' = PostInit(Requested(cfRequest), cpus)
  /\ cfStatus' = "created"
  /\ UNCHANGED <<coreVars, cfgOthers, cfEnv, cfRequest>>

\* IngestionConfig(batch_size=...) raises ValueError in __post_init__.
CfgConstructRaises ==
  /\ cfStatus = "start" /\ cfRequest.via = "constructor"
  /\ PostInitRaises(Requested(cfRequest))
  /\ cfStatus' = "error"
  /\ UNCHANGED <<coreVars, cfgOthers, cfEnv, cfRequest, cfLocal, cfService>>

(***************************************************************************)
(* DatabaseOperations.bulk_insert_models on the session of one file        *)
(***************************************************************************)

\* The stages of bulk_insert_models in the order of the code, and the end
\* of the call by an exception.
BulkStages == <<"upsert_floats", "upsert_profiles", "insert_measurements">>

StageRank(e) == CHOOSE i \in 1..(Len(BulkStages) + 1) :
                  IF i <= Len(BulkStages) THEN BulkStages[i] = e ELSE e = "raise"

BulkIdle ==
  /\ bModels = NoModels
  /\ bBefore = EmptyStore
  /\ bTables = EmptyStore
  /\ bStage = "off"
  /\ bTrace = <<>>

\* ingest_file up to the call: batch_map_profiles read the floats through
\* the session, and begin_nested flushed the floats it changed in place.
BulkInit ==
  /\ \E profiles \in SeqsUpTo(AllProfiles, MaxProfiles), store \in InitialStores :
       LET m == batch_map_profiles(profiles, store.floats)
           flushed == [store EXCEPT !.floats = FlushFloats(@, m.floats)]
       IN  /\ bModels = m
           /\ bBefore = flushed
           /\ bTables = flushed
  /\ bStage = "start"
  /\ bTrace = <<>>

\* if models_dict.get('floats'): floats_inserted = self._upsert_floats(...)
BulkUpsertFloats ==
  /\ bStage = "start"
  /\ IF bModels.floats = {}
       THEN UNCHANGED <<bTables, bTrace>>
       ELSE /\ bTables' = [bTables EXCEPT !.floats = UpsertFloats(@, bModels.floats)]
            /\ bTrace' = Append(bTrace, "upsert_floats")
  /\ bStage' = "floats_done"
  /\ UNCHANGED <<coreVars, bulkOthers, bModels, bBefore>>

\* _upsert_floats raises; bulk_insert_models logs and re-raises.
BulkUpsertFloatsRaises ==
  /\ bStage = "start" /\ bModels.floats # {}
  /\ bTrace' = bTrace \o <<"upsert_floats", "raise">>
  /\ bStage' = "raised"
  /\ UNCHANGED <<coreVars, bulkOthers, bModels, bBefore, bTables>>

\* if models_dict.get('profiles'): profiles_inserted = self._upsert_profiles(...)
BulkUpsertProfiles ==
  /\ bStage = "floats_done"
  /\ ~DuplicateKeys(bModels.profiles)
  /\ IF bModels.profiles = <<>>
       THEN UNCHANGED <<bTables, bTrace>>
       ELSE /\ bTables' = [bTables EXCEPT
                             !.profiles = UpsertProfiles(@, bModels.profiles)]
            /\ bTrace' = Append(bTrace, "upsert_profiles")
  /\ bStage' = "profiles_done"
  /\ UNCHANGED <<coreVars, bulkOthers, bModels, bBefore>>

\* _upsert_profiles raises (a transient error, or one statement touching a
\* profile_id twice); bulk_insert_models logs and re-raises.
BulkUpsertProfilesRaises ==
  /\ bStage = "floats_done" /\ bModels.profiles # <<>>
  /\ bTrace' = bTrace \o <<"upsert_profiles", "raise">>
  /\ bStage' = "raised"
  /\ UNCHANGED <<coreVars, bulkOthers, bModels, bBefore, bTables>>

\* if models_dict.get('measurements'): _bulk_insert_measurements(...): the
\* database rejects the statement; bulk_insert_models logs and re-raises.
BulkInsertMeasurementsRejected ==
  /\ bStage = "profiles_done" /\ bModels.measurements # <<>>
  /\ ~MeasurementStatementAccepted(bModels.measurements)
  /\ bTrace' = bTrace \o <<"insert_measurements", "raise">>
  /\ bStage' = "raised"
  /\ UNCHANGED <<coreVars, bulkOthers, bModels, bBefore, bTables>>

\* return floats_inserted, profiles_inserted, measurements_inserted
BulkReturns ==
  /\ bStage = "profiles_done" /\ bModels.measurements = <<>>
  /\ bStage' = "returned"
  /\ UNCHANGED <<coreVars, bulkOthers, bModels, bBefore, bTables, bTrace>>

(***************************************************************************)
(* DatabaseOperations.cleanup_old_logs                                     *)
(***************************************************************************)

\* The number of audit rows in the table.
MaxLogRows == 3

\* The months of the (non-leap) year the current date is drawn from.
Months == 1..3

DaysInMonth(m) == IF m = 2 THEN 28 ELSE 31

\* The day of the year of a date.
RECURSIVE DaysBefore(_)
DaysBefore(m) == IF m = 1 THEN 0 ELSE DaysInMonth(m - 1) + DaysBefore(m - 1)

Ordinal(d) == DaysBefore(d.month) + d.day

\* datetime.utcnow().replace(hour=0, ...): the current date; February and
\* March, so that the day `days` days earlier is in the same year.
Todays ==
  {d \in [month : Months \ {1}, day : {1, 15, 28, 31}] :
     d.day <= DaysInMonth(d.month)}

\* cleanup_days (30 by default).
CleanupDays == {1, 14, 30}

\* started_at of an audit row, as the day of the year.
LogDates == {10, 29, 45, 60, 75}

\* datetime.replace(day=...) raises ValueError for a day that the month
\* does not have.
ReplaceDayRaises(d, day) == day < 1 \/ day > DaysInMonth(d.month)

\* cutoff_date.replace(day=cutoff_date.day - days)
CutoffDate(d, days) == [d EXCEPT !.day = d.day - days]

CleanIdle ==
  /\ clToday = [month |-> 2, day |-> 1]
  /\ clDays = 30
  /\ clLog = <<>>
  /\ clKept = {}
  /\ clResult = 0
  /\ clStatus = "off"

CleanInit ==
  /\ clToday \in Todays
  /\ clDays \in CleanupDays
  /\ clLog \in [1..MaxLogRows -> LogDates]
  /\ clKept = 1..MaxLogRows
  /\ clResult = 0
  /\ clStatus = "start"

\* cleanup_old_logs: the cutoff is computed, the rows with
\* started_at < cutoff_date are deleted, the row count is returned.
CleanupDeletes ==
  /\ clStatus = "start"
  /\ ~ReplaceDayRaises(clToday, clToday.day - clDays)
  /\ LET cutoff == Ordinal(CutoffDate(clToday, clDays))
         old == {i \in clKept : clLog[i] < cutoff}
     IN  /\ clKept' = clKept \ old
         /\ clResult' = Cardinality(old)
  /\ clStatus' = "done"
  /\ UNCHANGED <<coreVars, cleanOthers, clToday, clDays, clLog>>

\* cleanup_old_logs: replace raises ValueError; except Exception: the error
\* is logged and 0 is returned.
CleanupFails ==
  /\ clStatus = "start"
  /\ ReplaceDayRaises(clToday, clToday.day - clDays)
  /\ clResult' = 0
  /\ clStatus' = "done"
  /\ UNCHANGED <<coreVars, cleanOthers, clToday, clDays, clLog, clKept>>

(***************************************************************************)
(* ArgoIngestionService (service.py)                                       *)
(***************************************************************************)

\* The number of operations called on the service.
MaxRuns == 2

\* The number of transient persistence errors injected.
MaxFaults == 1

ClosedSession == EmptyStore

ZeroStats ==
  [files_discovered |-> 0, files_processed |-> 0, files_successful |-> 0,
   files_failed |-> 0, files_skipped |-> 0, total_records_processed |-> 0,
   total_records_inserted |-> 0]

NoSummary ==
  [files_processed |-> 0, files_successful |-> 0, files_failed |-> 0,
   total_records_processed |-> 0, total_records_inserted |-> 0]

Parallel == max_workers > 1

Collected(f) == \E i \in DOMAIN results : results[i].file_path = f

\* A task that holds a session.
InPipeline(f) == pc[f] \in {"mapped", "floats_done", "profiles_done",
                            "measurements_done", "log_failed", "released"}

Finished(f) == pc[f] \in {"returned", "raised"}

\* Which call may take a step: the single file of ingest_file; any submitted
\* file of the pool in parallel mode; the file the loop is at in sequential
\* mode.
MayRun(f) ==
  /\ mainPc = "running"
  /\ \/ runKind = "file"
     \/ Parallel
     \/ Len(results) < Len(FileList) /\ FileList[Len(results) + 1] = f

\* ThreadPoolExecutor(max_workers): a queued call starts when a worker is free.
WorkerFree(f) ==
  \/ runKind = "file"
  \/ ~Parallel
  \/ Cardinality({g \in Files : InPipeline(g)}) < max_workers

HistoryEntry(f, res) ==
  [file |-> f, dry |-> dry[f], success |-> res.success,
   records_processed |-> res.records_processed,
   measurement_rows |-> Cardinality(db.measurements),
   log_rows |-> Cardinality({i \in DOMAIN db.log : db.log[i].file_path = f}),
   latest |-> IF HasStatus(db.log, f) THEN LatestStatus(db.log, f) ELSE "none"]

MainInit ==
  /\ content \in [Files -> FileCatalog]
  /\ max_workers \in {1, 2}
  /\ db \in InitialStores
  /\ pc = [f \in Files |-> "idle"]
  /\ dry = [f \in Files |-> FALSE]
  /\ result = [f \in Files |-> NoResult]
  /\ session = [f \in Files |-> ClosedSession]
  /\ savepoint = [f \in Files |-> ClosedSession]
  /\ models = [f \in Files |-> NoModels]
  /\ events = [f \in Files |-> <<>>]
  /\ faulted = [f \in Files |-> FALSE]
  /\ mainPc = "idle"
  /\ runKind = "none"
  /\ results = <<>>
  /\ stats = ZeroStats
  /\ summary = NoSummary
  /\ statsAtStart = ZeroStats
  /\ history = <<>>
  /\ faults = 0
  /\ runs = 0

MainIdle ==
  /\ content = [f \in Files |-> [kind |-> "invalid", profiles |-> <<>>]]
  /\ max_workers = 1
  /\ db = EmptyStore
  /\ pc = [f \in Files |-> "idle"]
  /\ dry = [f \in Files |-> FALSE]
  /\ result = [f \in Files |-> NoResult]
  /\ session = [f \in Files |-> ClosedSession]
  /\ savepoint = [f \in Files |-> ClosedSession]
  /\ models = [f \in Files |-> NoModels]
  /\ events = [f \in Files |-> <<>>]
  /\ faulted = [f \in Files |-> FALSE]
  /\ mainPc = "off"
  /\ runKind = "none"
  /\ results = <<>>
  /\ stats = ZeroStats
  /\ summary = NoSummary
  /\ statsAtStart = ZeroStats
  /\ history = <<>>
  /\ faults = 0
  /\ runs = 0

\* The per-call state as a new call finds it.
ResetCalls(submitted, d) ==
  /\ pc' = [f \in Files |-> IF f \in submitted THEN "submitted" ELSE "idle"]
  /\ dry' = [f \in Files |-> d]
  /\ result' = [f \in Files |-> NoResult]
  /\ session' = [f \in Files |-> ClosedSession]
  /\ savepoint' = [f \in Files |-> ClosedSession]
  /\ models' = [f \in Files |-> NoModels]
  /\ events' = [f \in Files |-> <<>>]
  /\ faulted' = [f \in Files |-> FALSE]
  /\ results' = <<>>
  /\ mainPc' = "running"

\* A caller invokes ingest_file(file_path, dry_run) directly.
CallIngestFile(f, d) ==
  /\ mainPc = "idle" /\ runs < MaxRuns
  /\ ResetCalls({f}, d)
  /\ runKind' = "file"
  /\ statsAtStart' = stats
  /\ UNCHANGED <<retryVars, mapVars, levelVars, parseVars, extraVars, content, max_workers, db, stats, summary, history, faults, runs>>

\* ingest_directory up to the hand-over to _process_files_*: every
\* discovered file is in the list.
CallIngestDirectory(d) ==
  /\ mainPc = "idle" /\ runs < MaxRuns
  /\ ResetCalls(Files, d)
  /\ runKind' = "directory"
  /\ stats' = [stats EXCEPT !.files_discovered = Len(FileList)]
  /\ statsAtStart' = stats
  /\ UNCHANGED <<retryVars, mapVars, levelVars, parseVars, extraVars, content, max_workers, db, summary, history, faults, runs>>

\* resume_ingestion with skip_successful: the files whose newest audit row
\* is 'success' are counted as skipped and left out of files_to_process;
\* then ingest_directory(directory, file_patterns) is called, which
\* discovers the files again.
CallResumeIngestion ==
  /\ mainPc = "idle" /\ runs < MaxRuns
  /\ ResetCalls(Files, FALSE)
  /\ runKind' = "resume"
  /\ LET skip == {f \in Files :
                    HasStatus(db.log, f) /\ LatestStatus(db.log, f) = "success"}
     IN  stats' = [stats EXCEPT
                     !.files_skipped = @ + Cardinality(skip),
                     !.files_discovered = Len(FileList)]
  /\ statsAtStart' = stats
  /\ UNCHANGED <<retryVars, mapVars, levelVars, parseVars, extraVars, content, max_workers, db, summary, history, faults, runs>>

orchVars == <<mainPc, runKind, results, stats, summary, statsAtStart, runs>>

\* ingest_file: validate_netcdf_file raises; the exception leaves ingest_file.
IngestRaises(f) ==
  /\ MayRun(f) /\ pc[f] = "submitted"
  /\ content[f].kind = "unreadable"
  /\ pc' = [pc EXCEPT ![f] = "raised"]
  /\ UNCHANGED <<retryVars, mapVars, levelVars, parseVars, extraVars, content, max_workers, db, dry, result, session, savepoint,
                 models, events, faulted, history, faults, orchVars>>

\* ingest_file returns before the dry_run test: the file is not valid, does
\* not parse, or has no accepted profile.
IngestRejects(f) ==
  /\ MayRun(f) /\ pc[f] = "submitted"
  /\ \/ content[f].kind \in {"invalid", "missing_vars"}
     \/ content[f].kind = "ok" /\ content[f].profiles = <<>>
  /\ LET res ==
           IF content[f].kind = "invalid"
             THEN FileProcessingResult(f, FALSE, 0, 0, <<"validation">>)
           ELSE IF content[f].kind = "missing_vars"
             THEN ParseFile(f, content[f])
           ELSE [ParseFile(f, content[f]) EXCEPT
                   !.errors = Append(@, "no_profiles"), !.success = FALSE]
     IN  /\ result' = [result EXCEPT ![f] = res]
         /\ history' = Append(history, HistoryEntry(f, res))
  /\ pc' = [pc EXCEPT ![f] = "returned"]
  /\ UNCHANGED <<retryVars, mapVars, levelVars, parseVars, extraVars, content, max_workers, db, dry, session, savepoint, models,
                 events, faulted, faults, orchVars>>

\* ingest_file with dry_run: the parse result with the number of profiles.
IngestDryRun(f) ==
  /\ MayRun(f) /\ pc[f] = "submitted"
  /\ content[f].kind = "ok" /\ content[f].profiles # <<>>
  /\ dry[f]
  /\ result' = [result EXCEPT ![f] = DryRunResult(f, content[f])]
  /\ history' = Append(history, HistoryEntry(f, DryRunResult(f, content[f])))
  /\ pc' = [pc EXCEPT ![f] = "returned"]
  /\ UNCHANGED <<retryVars, mapVars, levelVars, parseVars, extraVars, content, max_workers, db, dry, session, savepoint, models,
                 events, faulted, faults, orchVars>>

\* ingest_file, not a dry run: the session is opened (get_db_session) and
\* batch_map_profiles reads the floats through it.
IngestOpensSession(f) ==
  /\ MayRun(f) /\ pc[f] = "submitted" /\ WorkerFree(f)
  /\ content[f].kind = "ok" /\ content[f].profiles # <<>>
  /\ ~dry[f]
  /\ result' = [result EXCEPT ![f] = ParseFile(f, content[f])]
  /\ session' = [session EXCEPT ![f] = db]
  /\ events' = [events EXCEPT ![f] = <<"open">>]
  /\ models' = [models EXCEPT ![f] = batch_map_profiles(content[f].profiles, db.floats)]
  /\ pc' = [pc EXCEPT ![f] = "mapped"]
  /\ UNCHANGED <<retryVars, mapVars, levelVars, parseVars, extraVars, content, max_workers, db, dry, savepoint, faulted, history,
                 faults, orchVars>>

\* An exception inside the transaction block: TransactionManager.transaction
\* rolls the savepoint back and re-raises, get_db_session rolls the session
\* back and closes it, ingest_file records the error and returns.
PersistFails(f) ==
  LET res == [result[f] EXCEPT !.errors = Append(@, "database"),
                               !.success = FALSE]
  IN  /\ result' = [result EXCEPT ![f] = res]
      /\ events' = [events EXCEPT
                      ![f] = @ \o <<"rollback_savepoint", "rollback", "close">>]
      /\ session' = [session EXCEPT ![f] = ClosedSession]
      /\ savepoint' = [savepoint EXCEPT ![f] = ClosedSession]
      /\ history' = Append(history, HistoryEntry(f, res))
      /\ pc' = [pc EXCEPT ![f] = "returned"]

\* transaction(): begin_nested (flush, savepoint); bulk_insert_models:
\* _upsert_floats executes.
TxUpsertFloats(f) ==
  /\ MayRun(f) /\ pc[f] = "mapped"
  /\ LET flushed == [session[f] EXCEPT
                       !.floats = FlushFloats(@, models[f].floats)]
     IN  /\ savepoint' = [savepoint EXCEPT ![f] = flushed]
         /\ session' = [session EXCEPT
                          ![f] = [flushed EXCEPT
                                    !.floats = UpsertFloats(@, models[f].floats)]]
  /\ events' = [events EXCEPT ![f] = Append(@, "begin_nested")]
  /\ pc' = [pc EXCEPT ![f] = "floats_done"]
  /\ UNCHANGED <<retryVars, mapVars, levelVars, parseVars, extraVars, content, max_workers, db, dry, result, models, faulted,
                 history, faults, orchVars>>

\* _upsert_floats raises a transient persistence error.
TxUpsertFloatsFails(f) ==
  /\ MayRun(f) /\ pc[f] = "mapped"
  /\ faults < MaxFaults
  /\ faults' = faults + 1
  /\ faulted' = [faulted EXCEPT ![f] = TRUE]
  /\ PersistFails(f)
  /\ UNCHANGED <<retryVars, mapVars, levelVars, parseVars, extraVars, content, max_workers, db, dry, models, orchVars>>

\* _upsert_profiles executes.
TxUpsertProfiles(f) ==
  /\ MayRun(f) /\ pc[f] = "floats_done"
  /\ ~DuplicateKeys(models[f].profiles)
  /\ session' = [session EXCEPT
                   ![f] = [@ EXCEPT !.profiles =
                             UpsertProfiles(@, models[f].profiles)]]
  /\ pc' = [pc EXCEPT ![f] = "profiles_done"]
  /\ UNCHANGED <<retryVars, mapVars, levelVars, parseVars, extraVars, content, max_workers, db, dry, result, savepoint, models,
                 events, faulted, history, faults, orchVars>>

\* _upsert_profiles raises a transient persistence error.
TxUpsertProfilesFails(f) ==
  /\ MayRun(f) /\ pc[f] = "floats_done"
  /\ faults < MaxFaults
  /\ faults' = faults + 1
  /\ faulted' = [faulted EXCEPT ![f] = TRUE]
  /\ PersistFails(f)
  /\ UNCHANGED <<retryVars, mapVars, levelVars, parseVars, extraVars, content, max_workers, db, dry, models, orchVars>>

\* bulk_insert_models skips _bulk_insert_measurements for an empty list.
TxNoMeasurements(f) ==
  /\ MayRun(f) /\ pc[f] = "profiles_done"
  /\ models[f].measurements = <<>>
  /\ pc' = [pc EXCEPT ![f] = "measurements_done"]
  /\ UNCHANGED <<retryVars, mapVars, levelVars, parseVars, extraVars, content, max_workers, db, dry, result, session, savepoint,
                 models, events, faulted, history, faults, orchVars>>

\* _bulk_insert_measurements: the database rejects the statement.
TxInsertMeasurementsRejected(f) ==
  /\ MayRun(f) /\ pc[f] = "profiles_done"
  /\ models[f].measurements # <<>>
  /\ ~MeasurementStatementAccepted(models[f].measurements)
  /\ PersistFails(f)
  /\ UNCHANGED <<retryVars, mapVars, levelVars, parseVars, extraVars, content, max_workers, db, dry, models, faulted, faults,
                 orchVars>>

\* records_inserted = profiles_inserted (the row count of the profile
\* upsert), records_processed = len(profiles); log_ingestion_result adds
\* the audit row and flushes; the savepoint is released.
TxLogAndRelease(f) ==
  /\ MayRun(f) /\ pc[f] = "measurements_done"
  /\ LET res == [result[f] EXCEPT
                   !.records_inserted = Len(models[f].profiles),
                   !.records_processed = Len(content[f].profiles)]
     IN  /\ result' = [result EXCEPT ![f] = res]
         /\ session' = [session EXCEPT
                          ![f] = [@ EXCEPT !.log = Append(@, LogEntry(res))]]
  /\ events' = [events EXCEPT ![f] = @ \o <<"insert_log", "release_savepoint">>]
  /\ pc' = [pc EXCEPT ![f] = "released"]
  /\ UNCHANGED <<retryVars, mapVars, levelVars, parseVars, extraVars, content, max_workers, db, dry, savepoint, models, faulted,
                 history, faults, orchVars>>

\* log_ingestion_result: session.flush() of the audit row raises.  The
\* failed flush rolls the enclosing savepoint back (the rows written since
\* begin_nested go with it) and closes it; log_ingestion_result swallows
\* the exception.
TxLogFails(f) ==
  /\ MayRun(f) /\ pc[f] = "measurements_done"
  /\ faults < MaxFaults
  /\ faults' = faults + 1
  /\ result' = [result EXCEPT
                  ![f] = [@ EXCEPT !.records_inserted = Len(models[f].profiles),
                                   !.records_processed = Len(content[f].profiles)]]
  /\ session' = [session EXCEPT ![f] = savepoint[f]]
  /\ events' = [events EXCEPT ![f] = Append(@, "insert_log_failed")]
  /\ pc' = [pc EXCEPT ![f] = "log_failed"]
  /\ UNCHANGED <<retryVars, mapVars, levelVars, parseVars, extraVars, content, max_workers, db, dry, savepoint, models, faulted,
                 history, orchVars>>

\* savepoint.commit() on the savepoint the failed flush closed raises; the
\* exception leaves transaction() and get_db_session and reaches the except
\* branch of ingest_file.
TxReleaseFails(f) ==
  /\ MayRun(f) /\ pc[f] = "log_failed"
  /\ PersistFails(f)
  /\ UNCHANGED <<retryVars, mapVars, levelVars, parseVars, extraVars, content, max_workers, db, dry, models, faulted, faults,
                 orchVars>>

\* The with-block over get_session() ends normally: get_db_session closes
\* the session.  Nothing commits it, and close() discards the transaction.
ExitSession(f) ==
  /\ MayRun(f) /\ pc[f] = "released"
  /\ events' = [events EXCEPT ![f] = Append(@, "close")]
  /\ session' = [session EXCEPT ![f] = ClosedSession]
  /\ savepoint' = [savepoint EXCEPT ![f] = ClosedSession]
  /\ history' = Append(history, HistoryEntry(f, result[f]))
  /\ pc' = [pc EXCEPT ![f] = "returned"]
  /\ UNCHANGED <<retryVars, mapVars, levelVars, parseVars, extraVars, content, max_workers, db, dry, result, models, faulted,
                 faults, orchVars>>

\* The statistics after a completed call, counting nothing for a failure.
StatsAfterResultDropsFailed(st, res) ==
  [st EXCEPT !.files_processed = @ + 1,
             !.files_successful = IF res.success THEN @ + 1 ELSE @]

\* _process_files_parallel, the try branch of the as_completed loop.
ParallelStatsAfterResult(st, res) ==
  [st EXCEPT !.files_processed = @ + 1,
             !.files_successful = IF res.success THEN @ + 1 ELSE @,
             !.files_failed = IF res.success THEN @ ELSE @ + 1]

\* _process_files_sequential, the try branch of the loop.
SequentialStatsAfterResult(st, res) ==
  [st EXCEPT !.files_processed = @ + 1,
             !.files_successful = IF res.success THEN @ + 1 ELSE @,
             !.files_failed = IF res.success THEN @ ELSE @ + 1]

\* The except branch of both loops: an error result, files_failed += 1.
ErrorResult(f) == FileProcessingResult(f, FALSE, 0, 0, <<"exception">>)

StatsAfterException(st) == [st EXCEPT !.files_failed = @ + 1]

\* The loop of _process_files_* takes the result of a completed call: in
\* file order in sequential mode, in completion order (as_completed) in
\* parallel mode.
CollectResult(f) ==
  /\ mainPc = "running" /\ runKind \in {"directory", "resume"}
  /\ pc[f] = "returned" /\ ~Collected(f)
  /\ Parallel \/ FileList[Len(results) + 1] = f
  /\ results' = Append(results, result[f])
  /\ stats' = IF Parallel THEN ParallelStatsAfterResult(stats, result[f])
              ELSE SequentialStatsAfterResult(stats, result[f])
  /\ UNCHANGED <<retryVars, mapVars, levelVars, parseVars, extraVars, content, max_workers, db, pc, dry, result, session, savepoint,
                 models, events, faulted, mainPc, runKind, summary,
                 statsAtStart, history, faults, runs>>

\* The loop of _process_files_* catches the exception of a call.
CollectException(f) ==
  /\ mainPc = "running" /\ runKind \in {"directory", "resume"}
  /\ pc[f] = "raised" /\ ~Collected(f)
  /\ Parallel \/ FileList[Len(results) + 1] = f
  /\ results' = Append(results, ErrorResult(f))
  /\ stats' = StatsAfterException(stats)
  /\ UNCHANGED <<retryVars, mapVars, levelVars, parseVars, extraVars, content, max_workers, db, pc, dry, result, session, savepoint,
                 models, events, faulted, mainPc, runKind, summary,
                 statsAtStart, history, faults, runs>>

RECURSIVE SumProcessed(_, _)
SumProcessed(rs, i) ==
  IF i > Len(rs) THEN 0 ELSE rs[i].records_processed + SumProcessed(rs, i + 1)

RECURSIVE SumInserted(_, _)
SumInserted(rs, i) ==
  IF i > Len(rs) THEN 0 ELSE rs[i].records_inserted + SumInserted(rs, i + 1)

\* _aggregate_results: the totals are assigned, not accumulated.
AggregateResults(st, rs) ==
  [st EXCEPT !.total_records_processed = SumProcessed(rs, 1),
             !.total_records_inserted = SumInserted(rs, 1)]

\* _create_summary
CreateSummary(st) ==
  [files_processed |-> st.files_processed,
   files_successful |-> st.files_successful,
   files_failed |-> st.files_failed,
   total_records_processed |-> st.total_records_processed,
   total_records_inserted |-> st.total_records_inserted]

\* ingest_directory when discovery finds no file: the summary is made from
\* the statistics as they are.
IngestDirectoryNoFiles ==
  /\ mainPc = "idle" /\ runs < MaxRuns
  /\ runKind' = "empty"
  /\ stats' = [stats EXCEPT !.files_discovered = 0]
  /\ statsAtStart' = stats
  /\ summary' = CreateSummary([stats EXCEPT !.files_discovered = 0])
  /\ runs' = runs + 1
  /\ UNCHANGED <<retryVars, mapVars, levelVars, parseVars, extraVars, content, max_workers, db, pc, dry, result, session,
                 savepoint, models, events, faulted, mainPc, results, history, faults>>

\* ingest_directory after the loop: _aggregate_results, _create_summary.
FinishDirectory ==
  /\ mainPc = "running" /\ runKind \in {"directory", "resume"}
  /\ Len(results) = Len(FileList)
  /\ stats' = AggregateResults(stats, results)
  /\ summary' = CreateSummary(AggregateResults(stats, results))
  /\ mainPc' = "idle"
  /\ runs' = runs + 1
  /\ UNCHANGED <<retryVars, mapVars, levelVars, parseVars, extraVars, content, max_workers, db, pc, dry, result, session, savepoint,
                 models, events, faulted, runKind, results, statsAtStart,
                 history, faults>>

\* The direct ingest_file call is over (returned or raised).
FinishFile ==
  /\ mainPc = "running" /\ runKind = "file"
  /\ \E f \in Files : Finished(f)
  /\ mainPc' = "idle"
  /\ runs' = runs + 1
  /\ UNCHANGED <<retryVars, mapVars, levelVars, parseVars, extraVars, content, max_workers, db, pc, dry, result, session, savepoint,
                 models, events, faulted, runKind, results, stats, summary,
                 statsAtStart, history, faults>>

(***************************************************************************)
(* _process_files_parallel: the worker pool, the sessions and the mappers  *)
(***************************************************************************)

\* The files handed to _process_files_parallel, in the order of the list.
PoolFileList == <<"A", "B", "C">>

PoolFiles == {PoolFileList[i] : i \in DOMAIN PoolFileList}

\* What ingest_file does with a file: "session" - it reaches the database
\* block (get_session, batch_map_profiles); "plain" - it returns before
\* (not valid, no profile, dry run); "raises" - it raises.
TaskKinds == {"session", "plain", "raises"}

\* Tasks a worker thread is executing.
Running == {f \in PoolFiles : plState[f] \in {"running", "in_session"}}

\* A worker that takes every queued call at once.
PoolWorkerFreeAlways == TRUE

\* ThreadPoolExecutor(max_workers=self.config.max_workers): a queued call
\* is taken when one of the max_workers threads is idle.
PoolWorkerFree == Cardinality(Running) < plMaxWorkers

\* The queue of the executor is first in, first out.
FirstQueued(f) ==
  \E i \in DOMAIN PoolFileList :
    /\ PoolFileList[i] = f
    /\ plState[f] = "queued"
    /\ \A j \in 1..(i - 1) : plState[PoolFileList[j]] # "queued"

PoolIdle ==
  /\ plMaxWorkers = 2
  /\ plKind = [f \in PoolFiles |-> "plain"]
  /\ plState = [f \in PoolFiles |-> "off"]
  /\ plSession = [f \in PoolFiles |-> 0]
  /\ plMapper = [f \in PoolFiles |-> 0]
  /\ plObjects = 0
  /\ plCalls = [f \in PoolFiles |-> 0]
  /\ plResults = <<>>
  /\ plWriters = {}

\* _process_files_parallel after executor.submit(self.ingest_file, ...) for
\* every file; it is called for max_workers > 1 only.
PoolInit ==
  /\ plMaxWorkers \in {2, 3}
  /\ plKind \in [PoolFiles -> TaskKinds]
  /\ plState = [f \in PoolFiles |-> "queued"]
  /\ plSession = [f \in PoolFiles |-> 0]
  /\ plMapper = [f \in PoolFiles |-> 0]
  /\ plObjects = 0
  /\ plCalls = [f \in PoolFiles |-> 0]
  /\ plResults = <<>>
  /\ plWriters = {}

\* A worker thread takes the call and runs ingest_file up to the database
\* block.
PoolStart(f) ==
  /\ FirstQueued(f) /\ PoolWorkerFree
  /\ plState' = [plState EXCEPT ![f] = "running"]
  /\ plCalls' = [plCalls EXCEPT ![f] = @ + 1]
  /\ UNCHANGED <<coreVars, poolOthers, plMaxWorkers, plKind, plSession, plMapper,
                 plObjects, plResults, plWriters>>

\* with self.db_ops.get_session() as session: SessionLocal() makes a new
\* session; batch_map_profiles makes a new ArgoDataMapper with an empty
\* _float_cache.
PoolOpenSession(f) ==
  /\ plState[f] = "running" /\ plKind[f] = "session"
  /\ plSession' = [plSession EXCEPT ![f] = plObjects + 1]
  /\ plMapper' = [plMapper EXCEPT ![f] = plObjects + 2]
  /\ plObjects' = plObjects + 2
  /\ plState' = [plState EXCEPT ![f] = "in_session"]
  /\ UNCHANGED <<coreVars, poolOthers, plMaxWorkers, plKind, plCalls, plResults,
                 plWriters>>

\* ingest_file returns its result (the session, if any, is closed).
PoolReturn(f) ==
  /\ \/ plState[f] = "running" /\ plKind[f] = "plain"
     \/ plState[f] = "in_session"
  /\ plState' = [plState EXCEPT ![f] = "returned"]
  /\ UNCHANGED <<coreVars, poolOthers, plMaxWorkers, plKind, plSession, plMapper,
                 plObjects, plCalls, plResults, plWriters>>

\* ingest_file raises.
PoolRaise(f) ==
  /\ plState[f] = "running" /\ plKind[f] = "raises"
  /\ plState' = [plState EXCEPT ![f] = "raised"]
  /\ UNCHANGED <<coreVars, poolOthers, plMaxWorkers, plKind, plSession, plMapper,
                 plObjects, plCalls, plResults, plWriters>>

\* for future in as_completed(...): the calling thread takes the outcome
\* and updates self.stats.
PoolCollect(f) ==
  /\ plState[f] \in {"returned", "raised"}
  /\ \A i \in DOMAIN plResults : plResults[i] # f
  /\ plResults' = Append(plResults, f)
  /\ plWriters' = plWriters \cup {"main"}
  /\ UNCHANGED <<coreVars, poolOthers, plMaxWorkers, plKind, plState, plSession,
                 plMapper, plObjects, plCalls>>

(***************************************************************************)
(* Specifications                                                          *)
(***************************************************************************)

\* The specifications below the parser's, all idle.
ExtraIdle == BulkIdle /\ CfgIdle /\ CleanIdle /\ PoolIdle

\* Everything but the added specifications idle.
CoreIdle == MainIdle /\ RetryIdle /\ MapIdle /\ LevelIdle /\ ParseIdle

Init == MainInit /\ RetryIdle /\ MapIdle /\ LevelIdle /\ ParseIdle /\ ExtraIdle

Next ==
  \/ \E f \in Files, d \in BOOLEAN : CallIngestFile(f, d)
  \/ \E d \in BOOLEAN : CallIngestDirectory(d)
  \/ CallResumeIngestion
  \/ \E f \in Files : IngestRaises(f)
  \/ \E f \in Files : IngestRejects(f)
  \/ \E f \in Files : IngestDryRun(f)
  \/ \E f \in Files : IngestOpensSession(f)
  \/ \E f \in Files : TxUpsertFloats(f)
  \/ \E f \in Files : TxUpsertFloatsFails(f)
  \/ \E f \in Files : TxUpsertProfiles(f)
  \/ \E f \in Files : TxUpsertProfilesFails(f)
  \/ \E f \in Files : TxNoMeasurements(f)
  \/ \E f \in Files : TxInsertMeasurementsRejected(f)
  \/ \E f \in Files : TxLogAndRelease(f)
  \/ \E f \in Files : TxLogFails(f)
  \/ \E f \in Files : TxReleaseFails(f)
  \/ \E f \in Files : ExitSession(f)
  \/ \E f \in Files : CollectResult(f)
  \/ \E f \in Files : CollectException(f)
  \/ IngestDirectoryNoFiles
  \/ FinishDirectory
  \/ FinishFile

Spec == Init /\ [][Next]_vars

RetrySpecInit == MainIdle /\ RetryInit /\ MapIdle /\ LevelIdle /\ ParseIdle /\ ExtraIdle

RetryNext ==
  \/ RetryCallReturns
  \/ RetryCallFailsAndSleeps
  \/ RetryCallFailsLast
  \/ RetryCallPropagates
  \/ RetryLoopEnds

SpecRetry == RetrySpecInit /\ [][RetryNext]_vars

MapSpecInit == MainIdle /\ RetryIdle /\ MapInit /\ LevelIdle /\ ParseIdle /\ ExtraIdle

MapNext == MapBatch

SpecMap == MapSpecInit /\ [][MapNext]_vars

LevelSpecInit == MainIdle /\ RetryIdle /\ MapIdle /\ LevelInit /\ ParseIdle /\ ExtraIdle

LevelNext == MapLevel

SpecLevel == LevelSpecInit /\ [][LevelNext]_vars

ParseSpecInit == MainIdle /\ RetryIdle /\ MapIdle /\ LevelIdle /\ ParseInit /\ ExtraIdle

ParseNext ==
  \/ ParseProfileYielded
  \/ ParseProfileSkipped
  \/ ParseProfileRaised
  \/ ParseFileReturns

SpecParse == ParseSpecInit /\ [][ParseNext]_vars

BulkSpecInit == CoreIdle /\ BulkInit /\ CfgIdle /\ CleanIdle /\ PoolIdle

BulkNext ==
  \/ BulkUpsertFloats
  \/ BulkUpsertFloatsRaises
  \/ BulkUpsertProfiles
  \/ BulkUpsertProfilesRaises
  \/ BulkInsertMeasurementsRejected
  \/ BulkReturns

SpecBulk == BulkSpecInit /\ [][BulkNext]_vars

CfgSpecInit == CoreIdle /\ BulkIdle /\ CfgInit /\ CleanIdle /\ PoolIdle

CfgNext ==
  \/ CfgLoad
  \/ CfgOverride
  \/ CfgCreateService
  \/ CfgConstruct
  \/ CfgConstructRaises

SpecConfig == CfgSpecInit /\ [][CfgNext]_vars

CleanSpecInit == CoreIdle /\ BulkIdle /\ CfgIdle /\ CleanInit /\ PoolIdle

CleanNext ==
  \/ CleanupDeletes
  \/ CleanupFails

SpecCleanup == CleanSpecInit /\ [][CleanNext]_vars

PoolSpecInit == CoreIdle /\ BulkIdle /\ CfgIdle /\ CleanIdle /\ PoolInit

PoolNext ==
  \/ \E f \in PoolFiles : PoolStart(f)
  \/ \E f \in PoolFiles : PoolOpenSession(f)
  \/ \E f \in PoolFiles : PoolReturn(f)
  \/ \E f \in PoolFiles : PoolRaise(f)
  \/ \E f \in PoolFiles : PoolCollect(f)

SpecPool == PoolSpecInit /\ [][PoolNext]_vars

(***************************************************************************)
(* Properties                                                              *)
(***************************************************************************)

Count(q, x) == Cardinality({i \in DOMAIN q : q[i] = x})

MinOf(S) == CHOOSE x \in S : \A y \in S : x <= y

MaxOf(S) == CHOOSE x \in S : \A y \in S : x >= y

\* A file that passes validation and parsing with at least one profile.
ValidFile(f) == content[f].kind = "ok" /\ content[f].profiles # <<>>

\* The newest audit row of the file says 'success'.
LoggedSuccessful(f) ==
  HasStatus(db.log, f) /\ LatestStatus(db.log, f) = "success"

\* The profile rows some initial database already holds.
InitialProfileIds ==
  UNION {{r.profile_id : r \in st.profiles} : st \in InitialStores}

\* A directory run (ingest_directory, by itself or from resume_ingestion)
\* that has returned its summary.
DirectoryRunOver == mainPc = "idle" /\ runKind \in {"directory", "resume"}

\* C1: in resume mode the per-file pipeline never runs on a file whose
\* newest audit row is 'success'.
C1_ResumeSkipsSuccessful ==
  runKind = "resume" =>
    \A f \in Files : LoggedSuccessful(f) => pc[f] \in {"idle", "submitted"}

\* C2: two non-dry ingestions of the same valid file (no transient error
\* injected) both succeed, each leaves its own 'success' audit row, and the
\* number of stored measurement rows is the same after both.
C2_ReingestIdempotentAndLogged ==
  \A i, j \in DOMAIN history :
    ( /\ i < j
      /\ history[i].file = history[j].file
      /\ ~history[i].dry /\ ~history[j].dry
      /\ ValidFile(history[i].file)
      /\ faults = 0 )
    => /\ history[j].measurement_rows = history[i].measurement_rows
       /\ history[i].success /\ history[j].success
       /\ history[i].latest = "success" /\ history[j].latest = "success"
       /\ history[j].log_rows > history[i].log_rows

\* C3: a float the store does not know, sighted in N >= 1 profiles of one
\* batch_map_profiles pass, ends with total_profiles = N and the first and
\* last profile dates at the minimum and maximum of the N timestamps.
C3_FloatSightingsMerged ==
  mapDone =>
    \A fid \in FloatIds :
      LET sight == {i \in DOMAIN mapProfiles : mapProfiles[i].float_id = fid}
          times == {mapProfiles[i].date_time : i \in sight}
      IN  (sight # {} /\ ~HasFloat(mapFloats, fid)) =>
            \E m \in mapResult.floats :
              /\ m.float_id = fid
              /\ m.total_profiles = Cardinality(sight)
              /\ m.first_profile_date = MinOf(times)
              /\ m.last_profile_date = MaxOf(times)

ProfileCountsAgree(store) ==
  \A r \in store.floats :
    r.total_profiles =
      Cardinality({q \in store.profiles : q.float_id = r.float_id})

\* C4: every float row has total_profiles equal to the number of profile
\* rows that reference it, in the committed tables and in the tables as a
\* successful ingest_file leaves them when its transaction block is over.
C4_TotalProfilesMatchesProfileRows ==
  /\ ProfileCountsAgree(db)
  /\ \A f \in Files : pc[f] = "released" => ProfileCountsAgree(session[f])

\* C5: the summary of a directory run is one function of the per-file
\* outcomes, the same in sequential and in parallel mode and for every
\* completion order: files_successful and files_failed grow by the number
\* of successful and of failed (or raising) calls, total_records_inserted
\* is the sum of the calls' records_inserted.
C5_ModesAgree ==
  DirectoryRunOver =>
    LET ok == {f \in Files : pc[f] = "returned" /\ result[f].success}
        returned == {f \in Files : pc[f] = "returned"}
        inserted == SumInserted([i \in 1..Len(FileList) |->
                                   IF FileList[i] \in returned
                                     THEN result[FileList[i]]
                                     ELSE ErrorResult(FileList[i])], 1)
    IN  /\ summary.files_successful =
             statsAtStart.files_successful + Cardinality(ok)
        /\ summary.files_failed =
             statsAtStart.files_failed + Cardinality(Files \ ok)
        /\ summary.total_records_inserted = inserted

\* A parallel run is over in which B completed before A, B succeeded with
\* rows inserted and A failed.
C5_Witness ==
  /\ DirectoryRunOver /\ Parallel
  /\ Len(results) = 2
  /\ results[1].file_path = "B" /\ results[1].success
  /\ results[1].records_inserted > 0
  /\ ~results[2].success

\* C6: a dry-run ingest_file opens no session and executes no statement,
\* and reports the records_processed a non-dry ingest_file of the same file
\* reports.
C6_DryRunReportsSameAndWritesNothing ==
  /\ \A f \in Files :
       dry[f] => /\ events[f] = <<>>
                 /\ session[f] = ClosedSession
                 /\ ~InPipeline(f)
  /\ \A i, j \in DOMAIN history :
       (history[i].file = history[j].file /\ history[i].dry /\ ~history[j].dry)
         => history[i].records_processed = history[j].records_processed

\* The same file with two profiles went through a dry run and through a
\* successful non-dry ingestion.
C6_Witness ==
  \E i, j \in DOMAIN history :
    /\ history[i].file = history[j].file
    /\ history[i].dry /\ ~history[j].dry
    /\ history[j].success
    /\ history[j].records_processed = 2

\* C7: a non-dry ingest_file whose only obstacle was a transient persistence
\* error (fewer errors than max_retries, the writes otherwise go through)
\* returns success.
C7_TransientErrorRetried ==
  \A f \in Files :
    ( /\ pc[f] = "returned"
      /\ faulted[f]
      /\ models[f].measurements = <<>>
      /\ ~DuplicateKeys(models[f].profiles) )
    => result[f].success

RetryCalls == Cardinality({i \in DOMAIN rTrace : rTrace[i].kind = "call"})

RetryOver == rStatus \in {"returned", "raised", "propagated", "fell_through"}

\* C8: with the configured maximum M (no explicit max_retries) the operation
\* is called at most M+1 times; every call but the last raised a
\* persistence-layer exception; the call ends by returning exactly when the
\* last call returned and by re-raising exactly when all M+1 calls raised;
\* calls and sleeps alternate, beginning and ending with a call.
C8_RetryContract ==
  (~rParam.given /\ rStatus # "idle") =>
    LET M == rConfig.max_retries
    IN  /\ RetryCalls <= M + 1
        /\ \A i \in DOMAIN rTrace :
             rTrace[i].kind = (IF i % 2 = 1 THEN "call" ELSE "sleep")
        /\ \A i \in DOMAIN rTrace :
             rTrace[i].kind = "call" => rTrace[i].n = (i + 1) \div 2
        /\ \A k \in 1..(RetryCalls - 1) : rPlan[k] = "dberr"
        /\ RetryOver => (rTrace = <<>> \/ rTrace[Len(rTrace)].kind = "call")
        /\ rStatus = "returned" => rPlan[RetryCalls] = "ok"
        /\ rStatus = "raised" =>
             RetryCalls = M + 1 /\ \A k \in 1..(M + 1) : rPlan[k] = "dberr"
        /\ rStatus = "propagated" => rPlan[RetryCalls] = "error"
        /\ rStatus = "fell_through" => M < 0
        /\ (RetryOver /\ M >= 0) =>
             /\ (\E k \in 1..(M + 1) : rPlan[k] = "ok"
                   /\ \A h \in 1..(k - 1) : rPlan[h] = "dberr")
                  => rStatus = "returned"
             /\ (\A k \in 1..(M + 1) : rPlan[k] = "dberr") => rStatus = "raised"

\* The third call returned, after two failures and two sleeps.
C8_Witness ==
  /\ ~rParam.given
  /\ rStatus = "returned"
  /\ Len(rTrace) = 5

\* C9: after a non-dry directory run in which the persistence of some file
\* failed, none of that file's rows is in the store and every float and
\* profile row of the files that succeeded is.
C9_FailureIsolatedSuccessKept ==
  (DirectoryRunOver /\ \E f \in Files : ~dry[f] /\ "database" \in
      {result[f].errors[i] : i \in DOMAIN result[f].errors}) =>
    \A f \in Files :
      \A i \in DOMAIN content[f].profiles :
        LET p == content[f].profiles[i]
        IN  /\ (pc[f] = "returned" /\ ~result[f].success
                  /\ p.profile_id \notin InitialProfileIds)
                 => ~HasProfile(db.profiles, p.profile_id)
            /\ (pc[f] = "returned" /\ result[f].success)
                 => /\ HasProfile(db.profiles, p.profile_id)
                    /\ HasFloat(db.floats, p.float_id)

\* C10: when the with-block over get_session() ends normally, the session
\* was committed exactly once and closed exactly once, commit first.
C10_SessionCommittedOnceThenClosed ==
  \A f \in Files :
    (pc[f] = "returned" /\ events[f] # <<>> /\ Count(events[f], "rollback") = 0)
      => /\ Count(events[f], "commit") = 1
         /\ Count(events[f], "close") = 1
         /\ \E i, j \in DOMAIN events[f] :
              i < j /\ events[f][i] = "commit" /\ events[f][j] = "close"

\* C11: every non-dry-run ingest_file call writes exactly one audit row for
\* its file and keeps it (no rollback), with status 'success' for a
\* successful call and 'failed' for a failed one.
C11_OneAuditRowPerCall ==
  /\ \A f \in Files :
       (pc[f] = "returned" /\ ~dry[f]) =>
         /\ Count(events[f], "insert_log") = 1
         /\ Count(events[f], "rollback") = 0
  /\ \A f \in Files :
       pc[f] = "released" =>
         session[f].log[Len(session[f].log)] =
           [file_path |-> f,
            status |-> IF result[f].success THEN "success" ELSE "failed"]

\* C12: when the flush of the audit row raises after the file's rows were
\* written, ingest_file returns success and the file's float and profile
\* rows are in the store.
C12_LogFailureSwallowed ==
  \A f \in Files :
    (pc[f] = "returned" /\ Count(events[f], "insert_log_failed") > 0) =>
      /\ result[f].success
      /\ \A i \in DOMAIN content[f].profiles :
           /\ HasProfile(db.profiles, content[f].profiles[i].profile_id)
           /\ HasFloat(db.floats, content[f].profiles[i].float_id)

StructuralError(f) == content[f].kind \in {"invalid", "missing_vars"}

\* C13: a file with a structural error returns success = false with reasons,
\* no profile extracted and no session opened; a directory run over it
\* still runs ingest_file to the end on every other discovered file.
C13_StructuralErrorFailsFileOnly ==
  /\ \A f \in Files :
       (StructuralError(f) /\ Finished(f)) =>
         /\ pc[f] = "returned"
         /\ ~result[f].success
         /\ result[f].errors # <<>>
         /\ result[f].records_processed = 0
         /\ events[f] = <<>>
         /\ models[f] = NoModels
  /\ DirectoryRunOver =>
       \A f, g \in Files :
         (StructuralError(f) /\ g # f) => (Finished(g) /\ Collected(g))

\* A sequential run is over in which A had a structural error and B, after
\* it, was ingested successfully.
C13_Witness ==
  /\ DirectoryRunOver /\ ~Parallel
  /\ StructuralError("A")
  /\ pc["B"] = "returned" /\ result["B"].success /\ ~dry["B"]

\* C20: the summary of an ingest_directory call counts the files of that
\* call only, also after an earlier run on the same service; a call that
\* discovers no file reports files_processed = 0 and
\* total_records_processed = 0.
C20_SummaryCountsThisCallOnly ==
  /\ DirectoryRunOver =>
       LET returned == {f \in Files : pc[f] = "returned"}
           ok == {f \in returned : result[f].success}
       IN  /\ summary.files_processed = Cardinality(returned)
           /\ summary.files_successful = Cardinality(ok)
           /\ summary.files_failed = Cardinality(Files \ ok)
           /\ summary.total_records_processed = SumProcessed(results, 1)
  /\ (mainPc = "idle" /\ runKind = "empty") =>
       /\ summary.files_processed = 0
       /\ summary.total_records_processed = 0

\* A finite number: neither missing, nor NaN, nor an infinity.
Finite(v) == v \notin {Null, NaN, Inf}

\* C14: a measurement is emitted for a level if and only if the pressure is
\* finite and at least one scientific value at the level is finite; in an
\* emitted measurement every scientific field whose source value is absent
\* or not finite is null.
C14_MeasurementIffFiniteData ==
  lvDone =>
    /\ Len(lvOut) <= 1
    /\ Len(lvOut) = 1 <=>
         (Finite(lvLevel.pressure) /\ \E k \in ScienceFields : Finite(lvLevel[k]))
    /\ Len(lvOut) = 1 =>
         LET m == lvOut[1]
             out == [k \in ScienceFields |->
                       IF k = "chlorophyll" THEN m.chlorophyll_a ELSE m[k]]
         IN  \A k \in ScienceFields : ~Finite(lvLevel[k]) => out[k] = Null

\* The profiles the scan rejected among the indices before i.
RejectedBefore(i) ==
  {j \in 1..(i - 1) :
     \/ ~pDataset[j].decodes
     \/ ValidateProfile(pConfig, pDataset[j], j).outcome # "true"}

ParseOver == pStatus \in {"returned", "returned_early"}

\* C15: once more than max_errors_per_file profiles have been rejected no
\* further profile index is decoded, and the profiles accepted before the
\* stop are in the result.
C15_ScanStopsOverBudget ==
  /\ \A i \in pDecoded :
       Cardinality(RejectedBefore(i)) <= pConfig.max_errors_per_file
  /\ ParseOver => pResult.profiles = pYielded

\* C16: when the scan was broken off because of the error budget,
\* parse_file returns a result with success = false that carries the
\* accumulated errors.
C16_EarlyStopIsFailure ==
  pStatus = "returned_early" =>
    /\ ~pResult.success
    /\ pResult.errors = pErrors /\ pErrors # <<>>

BadGeography(config, p) ==
  \/ ~Between(ValidationConfig.latitude_min, p.latitude, ValidationConfig.latitude_max)
  \/ ~Between(ValidationConfig.longitude_min, p.longitude, ValidationConfig.longitude_max)

BadDate(config, p) ==
  \/ ~Between(ValidationConfig.min_date, p.date_time, ValidationConfig.max_date)
  \/ config.date_range.given
       /\ ~Between(config.date_range.start, p.date_time, config.date_range.end)

BadMode(config, p) == p.data_mode \notin config.data_modes

\* C17: under every configuration a decoded profile with bad geography, a
\* bad date or a data mode outside the accepted set is not yielded, is
\* counted in records_skipped, and has an entry of its own in the errors.
C17_RejectionCountedAndReported ==
  /\ \A i \in pDecoded :
       LET p == pDataset[i]
       IN  (p.decodes /\ (BadGeography(pConfig, p) \/ BadDate(pConfig, p)
                            \/ BadMode(pConfig, p))) =>
             /\ \A k \in DOMAIN pYielded : pYielded[k].index # i
             /\ \E k \in DOMAIN pErrors : pErrors[k].index = i
  /\ pSkipped = Cardinality(pDecoded) - Len(pYielded)

\* The profile of the tests: inside the global validation bounds, inside
\* the date range of the sample configuration, data mode accepted.
SampleValid(p) ==
  /\ p.decodes
  /\ p.latitude = 45 /\ p.longitude = -125
  /\ ~BadGeography(SampleConfig, p)
  /\ ~BadDate(SampleConfig, p)
  /\ ~BadMode(SampleConfig, p)

\* C18: under the sample configuration a profile with coordinates inside the
\* global validation bounds (latitude 45.5, longitude -125.2), a date in
\* the configured range and an accepted data mode is accepted, and
\* parse_file over a file of such profiles reports records_processed > 0.
C18_SampleConfigAcceptsValidProfile ==
  pConfig = SampleConfig =>
    /\ \A i \in pDecoded :
         SampleValid(pDataset[i]) =>
           ValidateProfile(pConfig, pDataset[i], i).outcome = "true"
    /\ (ParseOver /\ \A i \in DOMAIN pDataset : SampleValid(pDataset[i])) =>
         pResult.records_processed > 0

\* A level the mapper retains: it has a pressure and a reading.
Retained(level) ==
  /\ level.pressure \notin {Null, NaN}
  /\ \E k \in ScienceFields : level[k] \notin {Null, NaN}

RECURSIVE RetainedLevels(_, _)
RetainedLevels(profiles, i) ==
  IF i > Len(profiles) THEN 0
  ELSE Cardinality({k \in DOMAIN profiles[i].levels : Retained(profiles[i].levels[k])})
       + RetainedLevels(profiles, i + 1)

BulkExecuted(e) == \E i \in DOMAIN bTrace : bTrace[i] = e

\* C21: in one bulk_insert_models call the stages run in the order floats,
\* profiles, measurements; when the profile stage has run every profile
\* written has its float row, when the measurement stage runs every
\* measurement has its profile row; nothing runs after a stage raised.
C21_WriteOrderKeepsReferences ==
  /\ \A i, j \in DOMAIN bTrace :
       i < j => StageRank(bTrace[i]) < StageRank(bTrace[j])
  /\ \A i \in DOMAIN bTrace : bTrace[i] = "raise" => i = Len(bTrace)
  /\ bStage = "raised" <=> BulkExecuted("raise")
  /\ BulkExecuted("upsert_profiles") =>
       /\ BulkExecuted("upsert_floats")
       /\ \A i \in DOMAIN bModels.profiles :
            HasFloat(bTables.floats, bModels.profiles[i].float_id)
  /\ \A r \in bTables.profiles : HasFloat(bTables.floats, r.float_id)
  /\ BulkExecuted("insert_measurements") =>
       /\ BulkExecuted("upsert_profiles")
       /\ bTrace[Len(bTrace) - 2] = "upsert_profiles"
       /\ \A i \in DOMAIN bModels.measurements :
            HasProfile(bTables.profiles, bModels.measurements[i].profile_id)

\* All three stages ran for a float the session did not know, whose profile
\* row was written before the measurement stage.
C21_Witness ==
  /\ bTrace = <<"upsert_floats", "upsert_profiles", "insert_measurements", "raise">>
  /\ \E i \in DOMAIN bModels.profiles :
       /\ ~HasFloat(bBefore.floats, bModels.profiles[i].float_id)
       /\ HasProfile(bTables.profiles, bModels.profiles[i].profile_id)

\* The float stage of the bulk_insert_models call executed its statement.
FloatsUpserted ==
  /\ bStage \in {"floats_done", "profiles_done", "returned", "raised"}
  /\ bTrace # <<>> /\ bTrace # <<"upsert_floats", "raise">>

\* C22: a float upsert that meets an existing row replaces its
\* last_contact_date, total_profiles, status and last_profile_date by the
\* values of the mapper's float model and leaves deployment_date and
\* first_profile_date as they were.
C22_UpsertRefreshesMutableFieldsOnly ==
  FloatsUpserted =>
    \A old \in bBefore.floats :
      \A m \in bModels.floats :
        m.float_id = old.float_id =>
          LET new == FloatRow(bTables.floats, old.float_id)
          IN  /\ new.last_contact_date = m.last_contact_date
              /\ new.total_profiles = m.total_profiles
              /\ new.status = m.status
              /\ new.last_profile_date = m.last_profile_date
              /\ new.deployment_date = old.deployment_date
              /\ new.first_profile_date = old.first_profile_date

\* The profile dates of the float rows of a store are in order, and a float
\* with a profile row has a last profile date.
ProfileDatesOrdered(store) ==
  \A r \in store.floats :
    /\ (r.first_profile_date # Null /\ r.last_profile_date # Null)
         => r.last_profile_date >= r.first_profile_date
    /\ (\E q \in store.profiles : q.float_id = r.float_id)
         => r.last_profile_date # Null

\* C23: every stored float row with both profile dates has
\* last_profile_date >= first_profile_date, and a float with a stored
\* profile has a last_profile_date; in the committed tables and in the
\* tables as a successful ingest_file leaves them.
C23_ProfileDatesOrdered ==
  /\ ProfileDatesOrdered(db)
  /\ \A f \in Files : pc[f] = "released" => ProfileDatesOrdered(session[f])

\* C24: every measurement the mapper emits for persistence satisfies the
\* store's constraint pressure >= 0.
C24_PressureNonNegative ==
  lvDone => \A i \in DOMAIN lvOut : ValidPressure(lvOut[i])

\* C25: no service is ever created with a non-positive batch_size, however
\* the configuration was produced: a non-positive value from the
\* constructor, the environment or an override ends in an error.
C25_BatchSizePositive ==
  cfStatus = "created" => cfService.batch_size > 0

\* C29: the max_workers and batch_size overrides of a command line or a
\* job request are the values of the configuration the service runs with.
C29_OverridesReachService ==
  (cfStatus = "created" /\ cfRequest.via = "command") =>
    /\ (cfRequest.max_workers.given /\ cfRequest.max_workers.value # 0)
         => cfService.max_workers = cfRequest.max_workers.value
    /\ (cfRequest.batch_size.given /\ cfRequest.batch_size.value # 0)
         => cfService.batch_size = cfRequest.batch_size.value

\* C27: execute_with_retry with an explicit max_retries = k calls the
\* operation at most k + 1 times, for every k >= 0 and whatever the
\* configured default is.
C27_ExplicitMaxRetriesBoundsCalls ==
  (rParam.given /\ rStatus # "idle") => RetryCalls <= rParam.value + 1

\* C28: when the first ingest_directory run of a service is over,
\* files_processed = files_successful + files_failed = the number of
\* discovered files, in both modes, also when ingest_file raised.
C28_ProcessedIsSuccessfulPlusFailed ==
  (DirectoryRunOver /\ runs = 1) =>
    /\ summary.files_processed = summary.files_successful + summary.files_failed
    /\ summary.files_processed = Len(FileList)

\* C30: cleanup_old_logs(days) deletes exactly the audit rows that started
\* before midnight of the day `days` days before today and returns their
\* number; the newer rows stay.
C30_CleanupDeletesOlderThanCutoff ==
  clStatus = "done" =>
    LET cutoff == Ordinal(clToday) - clDays
        old == {i \in DOMAIN clLog : clLog[i] < cutoff}
    IN  /\ clKept = DOMAIN clLog \ old
        /\ clResult = Cardinality(old)

\* C26: in parallel mode ingest_file is called exactly once per file, at
\* most max_workers calls are being executed at a time, no two files being
\* processed (nor any two files at all) use the same session or the same
\* mapper cache, and only the calling thread updates the run statistics.
C26_ParallelCallsIsolated ==
  /\ plState # [f \in PoolFiles |-> "off"] =>
       /\ \A f \in PoolFiles :
            plCalls[f] = (IF plState[f] = "queued" THEN 0 ELSE 1)
       /\ Len(plResults) = Len(PoolFileList) => \A f \in PoolFiles : plCalls[f] = 1
       /\ Cardinality(Running) <= plMaxWorkers
       /\ \A f, g \in PoolFiles :
            (f # g /\ plSession[f] # 0 /\ plSession[g] # 0) =>
              /\ plSession[f] # plSession[g]
              /\ plMapper[f] # plMapper[g]
       /\ \A f \in PoolFiles : plState[f] = "in_session" => plSession[f] # 0
       /\ plWriters \subseteq {"main"}

\* Two files are inside their database block at the same time, on the two
\* workers of the pool, while the third waits in the queue.
C26_Witness ==
  /\ plMaxWorkers = 2
  /\ plState["A"] = "in_session" /\ plState["B"] = "in_session"
  /\ plState["C"] = "queued"
====
